---------------------------- MODULE Spec2Model ----------------------------
(***************************************************************************)
(* A model of viewlogs-rs (src/src/main.rs): the walk that indexes the     *)
(* job directories under multirun/<date>/<time>/.submitit/, the lookup of  *)
(* a job's log file, and the two commands (view, search) built on them.    *)
(*                                                                         *)
(* The filesystem and the scheduler are the environment.  Every call that  *)
(* reads them (read_dir, exists, File::open + read_to_string, squeue) is   *)
(* answered by a choice (\E) over the answers the call can give; the tool  *)
(* reads every directory at most once per run, so the answers of one run   *)
(* describe one tree.  The variables named "ghost" record what the         *)
(* environment answered; the program never reads them.                     *)
(***************************************************************************)
EXTENDS Integers, Sequences, FiniteSets, TLC

VARIABLES
    cmd,          \* the parsed command line (Cli.command)
    pc,           \* where the run is
    quota,        \* environment: how much more (directory entries, tokens of text) it may show
    ymds,         \* build_job_map: date directories not yet visited
    hmss,         \* build_job_map: time directories not yet visited
    jobs,         \* build_job_map: job directories not yet inserted
    jobmap,       \* build_job_map: the HashMap under construction
    built,        \* build_job_map: the value it returned
    entries,      \* search: the sorted entries not yet looked at
    active_jobs,  \* search: what get_active_slurm_jobs returned
    log_fp,       \* the value get_log_pathbuf returned last
    job_path,     \* view: the directory of the job asked for
    todo,         \* view: the endings still to report
    out,          \* what the run printed (or, for a function run on its own, returned)
    exit,         \* how the process ended: None while it runs, Ok, or Panic
    jobdirs,      \* ghost: the directories the filesystem showed under .submitit
    ignored,      \* ghost: how many entries that are no directory the walk was shown
    visited,      \* ghost: the job directories the walk came to, in walk order
    skipped,      \* ghost: the time directories without .submitit
    denied,       \* ghost: the directories the filesystem refused to list
    listing,      \* ghost: the last answer of read_dir on a job directory
    content,      \* ghost: the last answer of reading a log file
    squeue,       \* ghost: the answer of the scheduler query
    examined,     \* ghost: the jobs whose log search looked for, with what it was shown
    fsops         \* ghost: the kinds of access to the environment made so far

walkvars == <<ymds, hmss, jobs, jobmap, built>>
walkghost == <<jobdirs, ignored, visited, skipped, denied>>
logghost == <<listing, content>>
vars == <<cmd, pc, quota, ymds, hmss, jobs, jobmap, built, entries, active_jobs,
          log_fp, job_path, todo, out, exit, jobdirs, ignored, visited, skipped, denied, listing,
          content, squeue, examined, fsops>>

---------------------------------------------------------------------------
(* Bounds of the model *)

\* directory entries one read_dir answers with, and lines squeue prints, at most
MaxList == 2
\* tokens of text one log file holds, at most
MaxText == 3
\* directory entries and tokens of text the environment shows in one run, at most
MaxInput == 8

---------------------------------------------------------------------------
(* Values *)

None == [tag |-> "None"]
Ok(v) == [tag |-> "Ok", val |-> v]
Err(e) == [tag |-> "Err", err |-> e]
\* a panic (unwrap on Err/None, indexing a missing key): the process aborts
Panic(at) == [tag |-> "Panic", at |-> at]

\* ProgramError::FileNotFound { source, path }
FileNotFound(path) == [kind |-> "FileNotFound", path |-> path]
\* ProgramError::LogNotFound { dir, ending }
LogNotFound(dir, ending) == [kind |-> "LogNotFound", dir |-> dir, ending |-> ending]

\* the empty HashMap
EmptyMap == [k \in {} |-> None]

---------------------------------------------------------------------------
(* The filesystem as the tool sees it *)

MultirunDir == <<"multirun">>
SubmititName == ".submitit"
DateNames == {"2024-01-01", "2024-01-02"}
TimeNames == {"10-00-00", "11-00-00"}
\* a directory name that is not valid UTF-8 (OsStr::to_str gives None)
NonUtf8Name == "job\\xFF"
JobNames == {"10", "2", "30", NonUtf8Name}

\* what DirEntry::file_type answers: a directory, something else, an error;
\* "ioerr" is an entry the directory iterator yields as Err
FileTypes == {"dir", "file", "unknown", "ioerr"}

\* Path::join
Join(path, name) == Append(path, name)
\* Path::file_name of a path that does not end in ".."
FileName(path) == path[Len(path)]
\* OsStr::to_str
ToStr(name) == IF name = NonUtf8Name THEN None ELSE Ok(name)

\* the answers fs::read_dir can give for a directory whose entries are named
\* from `names`: an error, or the entries in the order the OS yields them
\* (no name twice), n of them at most
Listings(names, n) ==
    { s \in UNION { [1..k -> [name : names, ftype : FileTypes]] : k \in 0..n } :
        \A i, j \in 1..Len(s) : i # j => s[i].name # s[j].name }

Min(a, b) == IF a < b THEN a ELSE b

ReadDirAnswers(names, left) ==
    {Err("io")} \cup { Ok(s) : s \in Listings(names, Min(MaxList, left)) }

---------------------------------------------------------------------------
(* get_subdirectories, main.rs 71-83 *)

RECURSIVE SubdirsOfAll(_, _)
\* a variant of SubdirsOf without the is_dir test of line 80: every entry is kept
SubdirsOfAll(start, es) ==
    IF es = <<>> THEN <<>>
    ELSE <<Join(start, Head(es).name)>> \o SubdirsOfAll(start, Tail(es))

RECURSIVE SubdirsOf(_, _)
\* lines 76-82: the entries that are directories, as paths, in the order yielded
SubdirsOf(start, es) ==
    IF es = <<>> THEN <<>>
    ELSE LET e == Head(es)
             rest == SubdirsOf(start, Tail(es))
         IN IF e.ftype = "dir" THEN <<Join(start, e.name)>> \o rest ELSE rest

\* a variant of GetSubdirectories that takes a directory it cannot list for an empty one
GetSubdirectoriesLenient(start, rd) ==
    IF rd.tag = "Err" THEN Ok(<<>>)
    ELSE Ok(SubdirsOf(start, rd.val))

GetSubdirectories(start, rd) ==
    IF rd.tag = "Err" THEN Err(FileNotFound(start))
    ELSE Ok(SubdirsOf(start, rd.val))

---------------------------------------------------------------------------
(* build_job_map, main.rs 91-109 *)

\* a variant of Insert that keeps the entry a key already has (entry().or_insert())
InsertIfAbsent(m, k, v) == [x \in DOMAIN m \cup {k} |-> IF x \in DOMAIN m THEN m[x] ELSE v]

\* HashMap::insert
Insert(m, k, v) == [x \in DOMAIN m \cup {k} |-> IF x = k THEN v ELSE m[x]]

\* ghost: what one read_dir answer consumes and shows
\* ghosts are kept when a function is run on its own
Observing == cmd.name \in {"build_job_map", "get_log_content_or_error_msg"}
Take(rd) == IF rd.tag = "Ok" THEN quota - Len(rd.val) ELSE quota
NonDirs(rd) == IF Observing /\ rd.tag = "Ok" THEN Cardinality({i \in 1..Len(rd.val) : rd.val[i].ftype # "dir"}) ELSE 0
DirsShown(dir, rd) ==
    IF Observing /\ rd.tag = "Ok"
    THEN {Join(dir, rd.val[i].name) : i \in {j \in 1..Len(rd.val) : rd.val[j].ftype = "dir"}}
    ELSE {}
Refused(dir, rd) == IF Observing /\ rd.tag = "Err" THEN {dir} ELSE {}
TakeText(fa) == IF fa.tag = "Ok" THEN quota - Len(fa.val) ELSE quota

\* line 95: get_subdirectories(start)?
BuildStart ==
    /\ pc = "build"
    /\ \E rd \in ReadDirAnswers(DateNames, quota) :
         LET r == GetSubdirectories(MultirunDir, rd) IN
         /\ quota' = Take(rd)
         /\ ignored' = ignored + NonDirs(rd)
         /\ denied' = denied \cup Refused(MultirunDir, rd)
         /\ jobmap' = EmptyMap
         /\ IF r.tag = "Err"
            THEN /\ built' = r
                 /\ pc' = "built"
                 /\ ymds' = <<>>
            ELSE /\ ymds' = r.val
                 /\ pc' = "walk"
                 /\ UNCHANGED built
    /\ fsops' = fsops \cup {"read_dir"}
    /\ UNCHANGED <<cmd, hmss, jobs, jobdirs, visited, skipped>>
    /\ UNCHANGED <<entries, active_jobs, log_fp, job_path, todo, out, exit, listing, content, squeue, examined>>

\* lines 95-96: the next ymd, and get_subdirectories(ymd)?
VisitDate ==
    /\ pc = "walk" /\ jobs = <<>> /\ hmss = <<>> /\ ymds # <<>>
    /\ \E rd \in ReadDirAnswers(TimeNames, quota) :
         LET ymd == Head(ymds)
             r == GetSubdirectories(ymd, rd)
         IN
         /\ quota' = Take(rd)
         /\ ignored' = ignored + NonDirs(rd)
         /\ denied' = denied \cup Refused(ymd, rd)
         /\ ymds' = Tail(ymds)
         /\ IF r.tag = "Err"
            THEN /\ built' = r
                 /\ pc' = "built"
                 /\ hmss' = <<>>
            ELSE /\ hmss' = r.val
                 /\ UNCHANGED <<built, pc>>
    /\ fsops' = fsops \cup {"read_dir"}
    /\ UNCHANGED <<cmd, jobs, jobmap, jobdirs, visited, skipped>>
    /\ UNCHANGED <<entries, active_jobs, log_fp, job_path, todo, out, exit, listing, content, squeue, examined>>

\* lines 96-101: the next hms, the exists() test and get_subdirectories(submitit_dir)?
\* Path::exists is TRUE for whatever is found there, a directory or not; read_dir
\* of what is no directory, or of a directory that may not be read, is an error
VisitTime ==
    /\ pc = "walk" /\ jobs = <<>> /\ hmss # <<>>
    /\ LET hms == Head(hmss)
           submitit_dir == Join(hms, SubmititName)
       IN
       /\ hmss' = Tail(hmss)
       /\ \E exists \in BOOLEAN :
            IF ~exists
            THEN /\ skipped' = (IF Observing THEN skipped \cup {hms} ELSE skipped)
                 /\ fsops' = fsops \cup {"exists"}
                 /\ UNCHANGED <<quota, jobs, built, pc, denied, ignored, jobdirs>>
            ELSE \E rd \in ReadDirAnswers(JobNames, quota) :
                   LET r == GetSubdirectories(submitit_dir, rd) IN
                   /\ quota' = Take(rd)
                   /\ ignored' = ignored + NonDirs(rd)
                   /\ denied' = denied \cup Refused(submitit_dir, rd)
                   /\ jobdirs' = jobdirs \cup DirsShown(submitit_dir, rd)
                   /\ fsops' = fsops \cup {"exists", "read_dir"}
                   /\ UNCHANGED skipped
                   /\ IF r.tag = "Err"
                      THEN /\ built' = r
                           /\ pc' = "built"
                           /\ jobs' = <<>>
                      ELSE /\ jobs' = r.val
                           /\ UNCHANGED <<built, pc>>
    /\ UNCHANGED <<cmd, ymds, jobmap, visited>>
    /\ UNCHANGED <<entries, active_jobs, log_fp, job_path, todo, out, exit, listing, content, squeue, examined>>

\* lines 102-104: jobmap.insert(name.to_str().unwrap().to_string(), job)
InsertJob ==
    /\ pc = "walk" /\ jobs # <<>>
    /\ LET job == Head(jobs)
           name == ToStr(FileName(job))
       IN
       /\ jobs' = Tail(jobs)
       /\ visited' = (IF Observing THEN Append(visited, job) ELSE visited)
       /\ IF name.tag = "None"
          THEN /\ built' = Panic("to_str")
               /\ pc' = "built"
               /\ UNCHANGED jobmap
          ELSE /\ jobmap' = Insert(jobmap, name.val, job)
               /\ UNCHANGED <<built, pc>>
    /\ UNCHANGED <<cmd, quota, ymds, hmss, jobdirs, ignored, skipped, denied, fsops>>
    /\ UNCHANGED <<entries, active_jobs, log_fp, job_path, todo, out, exit, listing, content, squeue, examined>>

\* line 108: Ok(jobmap)
BuildReturn ==
    /\ pc = "walk" /\ jobs = <<>> /\ hmss = <<>> /\ ymds = <<>>
    /\ built' = Ok(jobmap)
    /\ pc' = "built"
    /\ UNCHANGED <<cmd, quota, ymds, hmss, jobs, jobmap, fsops>>
    /\ UNCHANGED walkghost
    /\ UNCHANGED <<entries, active_jobs, log_fp, job_path, todo, out, exit, listing, content, squeue, examined>>

---------------------------------------------------------------------------
(* get_log_pathbuf, main.rs 127-146 *)

\* the files of a job directory: submitit's logs, and one whose extension differs in case
LogNames == {"0_log.out", "0_log.err", "0_LOG.OUT"}
Endings == <<"out", "err">>

\* Path::extension: what follows the last dot of the file name, if the name has a
\* dot after its first character
Extension(name) ==
    CASE name = "0_log.out" -> Ok("out")
      [] name = "0_log.err" -> Ok("err")
      [] name = "0_LOG.OUT" -> Ok("OUT")
      [] OTHER -> None

\* line 136: f.path().extension().map_or(false, |ext| ext == ending)
ExtensionIs(name, ending) ==
    LET ext == Extension(name) IN IF ext.tag = "None" THEN FALSE ELSE ext.val = ending

RECURSIVE ScanEntries(_, _, _)
\* lines 129-145: the loop over the entries, and what follows it
ScanEntries(dir, es, ending) ==
    IF es = <<>> THEN Err(LogNotFound(dir, ending))
    ELSE LET f == Head(es) IN
         IF f.ftype = "ioerr" THEN Err(FileNotFound(dir))
         ELSE IF f.ftype = "unknown" THEN Panic("file_type")
         ELSE IF f.ftype = "file" /\ ExtensionIs(f.name, ending) THEN Ok(Join(dir, f.name))
         ELSE ScanEntries(dir, Tail(es), ending)

\* a variant of GetLogPathbuf that reports a directory it cannot list as LogNotFound
GetLogPathbufFolded(dir, rd, ending) ==
    IF rd.tag = "Err" THEN Err(LogNotFound(dir, ending))
    ELSE ScanEntries(dir, rd.val, ending)

GetLogPathbuf(dir, rd, ending) ==
    IF rd.tag = "Err" THEN Err(FileNotFound(dir))
    ELSE ScanEntries(dir, rd.val, ending)

---------------------------------------------------------------------------
(* get_log_content, main.rs 120-125, and get_log_content_or_error_msg, 111-118 *)

\* text is a sequence of tokens: pieces of a line, and the line break
Newline == "\n"
Words == {"alpha 1", "beta 2"}
Tokens == Words \cup {Newline}
Texts(n) == UNION { [1..k -> Tokens] : k \in 0..n }

\* what File::open and read_to_string answer: open fails, the bytes are no UTF-8,
\* or the text
FileAnswers(n) == {Err("open"), Err("read")} \cup { Ok(t) : t \in Texts(n) }

GetLogContent(fa) == IF fa.tag = "Ok" THEN Ok(fa.val) ELSE None

\* a String, as the format string that made it and its arguments
Str(fmt, args) == [fmt |-> fmt, args |-> args]
\* the snafu display attributes, lines 13 and 15
Display(e) ==
    IF e.kind = "FileNotFound" THEN Str("Could not find file {}.", <<e.path>>)
    ELSE Str("Could not find log in {} with ending {}.", <<e.dir, <<e.ending>>>>)

\* lines 113-115: what is returned when get_log_pathbuf failed
ErrorMsg(fp) == Display(fp.err)
\* lines 116-117: what is returned once the file was read, or could not be
ContentOrFallback(fa) ==
    LET c == GetLogContent(fa) IN
    IF c.tag = "None" THEN Str("Could not read log.", <<>>) ELSE Str("{}", <<c.val>>)

---------------------------------------------------------------------------
(* view, main.rs 148-163 *)

\* line 153 and the println! of lines 156-161 (the dashes repeat the header's length)
Println(ending, path, body) ==
    [kind |-> "log",
     header |-> Str("Reporting {} file for job at {:?}:", <<<<ending>>, path>>),
     body |-> body]

\* line 151: job_map[&target], Index::index of HashMap
Index(m, k) == IF k \in DOMAIN m THEN Ok(m[k]) ELSE Panic("index")

\* lines 150-151: build_job_map("multirun").unwrap() and job_map[&target].clone()
ViewLookup ==
    /\ pc = "built" /\ cmd.name = "view"
    /\ IF built.tag # "Ok"
       THEN /\ exit' = (IF built.tag = "Panic" THEN built ELSE Panic("unwrap"))
            /\ pc' = "exit"
            /\ UNCHANGED <<job_path, todo>>
       ELSE LET p == Index(built.val, cmd.jobid) IN
            IF p.tag = "Panic"
            THEN /\ exit' = p
                 /\ pc' = "exit"
                 /\ UNCHANGED <<job_path, todo>>
            ELSE /\ job_path' = p.val
                 /\ todo' = Endings
                 /\ pc' = "msg"
                 /\ UNCHANGED exit
    /\ UNCHANGED <<cmd, quota, entries, active_jobs, log_fp, out, squeue, examined, fsops>>
    /\ UNCHANGED <<walkvars, walkghost, logghost>>

\* line 112 of get_log_content_or_error_msg(job_path, ending): get_log_pathbuf
MsgResolve ==
    /\ pc = "msg" /\ todo # <<>>
    /\ \E rd \in ReadDirAnswers(LogNames, quota) :
         LET fp == GetLogPathbuf(job_path, rd, Head(todo)) IN
         /\ quota' = Take(rd)
         /\ listing' = (IF Observing THEN rd ELSE None)
         /\ log_fp' = fp
         /\ IF fp.tag = "Panic"
            THEN exit' = fp /\ pc' = "exit"
            ELSE pc' = "msg_read" /\ UNCHANGED exit
    /\ content' = None
    /\ fsops' = fsops \cup {"read_dir"}
    /\ UNCHANGED <<cmd, entries, active_jobs, out, squeue, examined, job_path, todo>>
    /\ UNCHANGED <<walkvars, walkghost>>

\* lines 113-117, and the println! that shows what they return
MsgPrint ==
    /\ pc = "msg_read"
    /\ \/ /\ log_fp.tag = "Err"
          /\ out' = Append(out, Println(Head(todo), job_path, ErrorMsg(log_fp)))
          /\ UNCHANGED <<content, fsops, quota>>
       \/ /\ log_fp.tag = "Ok"
          /\ \E fa \in FileAnswers(Min(MaxText, quota)) :
               /\ out' = Append(out, Println(Head(todo), job_path, ContentOrFallback(fa)))
               /\ content' = (IF Observing THEN fa ELSE None)
               /\ quota' = TakeText(fa)
          /\ fsops' = fsops \cup {"open"}
    /\ todo' = Tail(todo)
    /\ IF Tail(todo) = <<>>
       THEN pc' = "exit" /\ exit' = Ok("returned")
       ELSE pc' = "msg" /\ UNCHANGED exit
    /\ UNCHANGED <<cmd, entries, active_jobs, log_fp, squeue, examined, job_path, listing>>
    /\ UNCHANGED <<walkvars, walkghost>>

---------------------------------------------------------------------------
(* get_active_slurm_jobs, main.rs 21-42 *)

\* the lines squeue may print
SqueueLines == {"2", " 30 ", ""}
\* str::trim
Trim(line) == IF line = " 30 " THEN "30" ELSE line

\* what Command::output answers: squeue could not be run, or its status and output
SqueueAnswers ==
    {Err("spawn")} \cup
    { Ok([success |-> s, stdout |-> o]) :
        s \in BOOLEAN, o \in UNION { [1..k -> SqueueLines] : k \in 0..MaxList } }

RECURSIVE TrimmedNonEmpty(_)
\* lines 35-39
TrimmedNonEmpty(ls) ==
    IF ls = <<>> THEN <<>>
    ELSE LET l == Trim(Head(ls)) IN
         IF l = "" THEN TrimmedNonEmpty(Tail(ls)) ELSE <<l>> \o TrimmedNonEmpty(Tail(ls))

GetActiveSlurmJobs(ans) ==
    IF ans.tag = "Err" THEN Panic("output")
    ELSE IF ~ans.val.success THEN Ok(<<>>)
    ELSE Ok(TrimmedNonEmpty(ans.val.stdout))

---------------------------------------------------------------------------
(* search, main.rs 165-212 *)

\* the patterns of the command line; "a(" is no regular expression
Patterns == {"alpha", "a("}
\* a variant of RegexNew that accepts every pattern
RegexNewLenient(pattern) == Ok(pattern)

\* Regex::new
RegexNew(pattern) == IF pattern = "a(" THEN Err("syntax") ELSE Ok(pattern)

\* where `regex` matches in a piece of text, and the piece with every match in red
WordMatches(regex, w) == regex = "alpha" /\ w = "alpha 1"
Red(regex, w) == "\\e[31malpha\\e[0m 1"

\* Regex::is_match on one line
IsMatch(regex, line) == \E i \in 1..Len(line) : WordMatches(regex, line[i])
\* line 192: regex.replace_all(line, |cap| cap[0].red().to_string())
ReplaceAll(regex, line) ==
    [i \in 1..Len(line) |-> IF WordMatches(regex, line[i]) THEN Red(regex, line[i]) ELSE line[i]]

RECURSIVE SplitLines(_, _)
SplitLines(t, cur) ==
    IF t = <<>> THEN (IF cur = <<>> THEN <<>> ELSE <<cur>>)
    ELSE IF Head(t) = Newline THEN <<cur>> \o SplitLines(Tail(t), <<>>)
    ELSE SplitLines(Tail(t), Append(cur, Head(t)))
\* str::lines: the pieces between line breaks, without a last empty one
Lines(t) == SplitLines(t, <<>>)

RECURSIVE FilterMap(_, _)
\* lines 190-194 over the lines of the log
FilterMap(regex, ls) ==
    IF ls = <<>> THEN <<>>
    ELSE IF IsMatch(regex, Head(ls))
         THEN <<ReplaceAll(regex, Head(ls))>> \o FilterMap(regex, Tail(ls))
         ELSE FilterMap(regex, Tail(ls))

\* lines 187-195
MatchingLines(regex, fa) ==
    LET c == GetLogContent(fa)
        log_content == IF c.tag = "None" THEN <<>> ELSE c.val
    IN FilterMap(regex, Lines(log_content))

\* the bytes of a job identifier: String's Ord compares them
Bytes(id) ==
    CASE id = "10" -> <<49, 48>>
      [] id = "2" -> <<50>>
      [] id = "30" -> <<51, 48>>

RECURSIVE Cmp(_, _)
\* Ord::cmp of two strings
Cmp(a, b) ==
    IF a = <<>> /\ b = <<>> THEN "Equal"
    ELSE IF a = <<>> THEN "Less"
    ELSE IF b = <<>> THEN "Greater"
    ELSE IF Head(a) < Head(b) THEN "Less"
    ELSE IF Head(a) > Head(b) THEN "Greater"
    ELSE Cmp(Tail(a), Tail(b))

\* a variant of Compare with its arguments the other way round: |a, b| a.0.cmp(b.0)
CompareAscending(a, b) == Cmp(Bytes(a.id), Bytes(b.id))

\* line 171: |a, b| b.0.cmp(a.0)
Compare(a, b) == Cmp(Bytes(b.id), Bytes(a.id))

RECURSIVE InsertSorted(_, _)
InsertSorted(s, x) ==
    IF s = <<>> THEN <<x>>
    ELSE IF Compare(Head(s), x) = "Greater" THEN <<x>> \o s
    ELSE <<Head(s)>> \o InsertSorted(Tail(s), x)

RECURSIVE SortBy(_)
\* slice::sort_by, a stable sort
SortBy(s) == IF s = <<>> THEN <<>> ELSE InsertSorted(SortBy(Tail(s)), Head(s))

\* the orders in which HashMap::iter may yield the keys
IterOrders(m) ==
    { f \in [1..Cardinality(DOMAIN m) -> DOMAIN m] : \A k \in DOMAIN m : \E i \in DOMAIN f : f[i] = k }

\* lines 170-171
SortedEntries(m, order) == SortBy([i \in DOMAIN order |-> [id |-> order[i], dir |-> m[order[i]]]])

\* Vec::contains
Contains(v, x) == \E i \in 1..Len(v) : v[i] = x

\* lines 166-167: Regex::new(&pattern).unwrap()
SearchCompile ==
    /\ pc = "search"
    /\ IF RegexNew(cmd.pattern).tag = "Err"
       THEN exit' = Panic("regex") /\ pc' = "exit"
       ELSE pc' = "build" /\ UNCHANGED exit
    /\ UNCHANGED <<cmd, quota, entries, active_jobs, log_fp, out, squeue, examined, fsops, job_path, todo>>
    /\ UNCHANGED <<walkvars, walkghost, logghost>>

\* lines 168-171 and the else of 173-177
SearchSort ==
    /\ pc = "built" /\ cmd.name = "search"
    /\ IF built.tag # "Ok"
       THEN /\ exit' = (IF built.tag = "Panic" THEN built ELSE Panic("unwrap"))
            /\ pc' = "exit"
            /\ UNCHANGED entries
       ELSE /\ \E order \in IterOrders(built.val) : entries' = SortedEntries(built.val, order)
            /\ pc' = IF cmd.active THEN "squeue" ELSE "loop"
            /\ UNCHANGED exit
    /\ active_jobs' = <<>>
    /\ UNCHANGED <<cmd, quota, log_fp, out, squeue, examined, fsops, job_path, todo>>
    /\ UNCHANGED <<walkvars, walkghost, logghost>>

\* ghost: what the scheduler answered: whether squeue ran, whether it succeeded, and
\* the job identifiers its output names
Queried(ans) ==
    IF ans.tag = "Err" THEN [ran |-> FALSE, success |-> FALSE, named |-> {}]
    ELSE [ran |-> TRUE, success |-> ans.val.success,
          named |-> {Trim(ans.val.stdout[i]) : i \in 1..Len(ans.val.stdout)} \ {""}]

\* line 174: get_active_slurm_jobs()
SearchActive ==
    /\ pc = "squeue"
    /\ \E ans \in SqueueAnswers :
         LET r == GetActiveSlurmJobs(ans) IN
         /\ squeue' = Queried(ans)
         /\ IF r.tag = "Panic"
            THEN exit' = r /\ pc' = "exit" /\ UNCHANGED active_jobs
            ELSE active_jobs' = r.val /\ pc' = "loop" /\ UNCHANGED exit
    /\ fsops' = fsops \cup {"squeue"}
    /\ UNCHANGED <<cmd, quota, entries, log_fp, out, examined, job_path, todo>>
    /\ UNCHANGED <<walkvars, walkghost, logghost>>

\* ghost: what search was shown of one job: whether its directory holds a regular file
\* with the extension out, and how many lines of that file match
Shown(id, rd, n) ==
    [id |-> id,
     haslog |-> rd.tag = "Ok" /\ \E i \in 1..Len(rd.val) :
                   rd.val[i].ftype = "file" /\ ExtensionIs(rd.val[i].name, "out"),
     matches |-> n]

\* lines 179-186: the next entry, the --active filter and get_log_pathbuf(dir, "out")
SearchNext ==
    /\ pc = "loop" /\ entries # <<>>
    /\ LET e == Head(entries) IN
       IF cmd.active /\ ~Contains(active_jobs, e.id)
       THEN /\ entries' = Tail(entries)
            /\ UNCHANGED <<log_fp, exit, pc, examined, fsops, quota>>
       ELSE \E rd \in ReadDirAnswers(LogNames, quota) :
              LET fp == GetLogPathbuf(e.dir, rd, "out") IN
              /\ quota' = Take(rd)
              /\ log_fp' = fp
              /\ fsops' = fsops \cup {"read_dir"}
              /\ examined' = Append(examined, Shown(e.id, rd, 0))
              /\ IF fp.tag = "Panic" THEN exit' = fp /\ pc' = "exit" /\ UNCHANGED entries
                 ELSE IF fp.tag = "Err" THEN entries' = Tail(entries) /\ UNCHANGED <<exit, pc>>
                 ELSE pc' = "scan" /\ UNCHANGED <<exit, entries>>
    /\ UNCHANGED <<cmd, active_jobs, out, squeue, job_path, todo>>
    /\ UNCHANGED <<walkvars, walkghost, logghost>>

\* the lines of a text that hold a word of the pattern (ghost: counted on the file)
MatchCount(regex, fa) ==
    IF fa.tag # "Ok" THEN 0
    ELSE LET ls == Lines(fa.val) IN
         Cardinality({i \in 1..Len(ls) : \E j \in 1..Len(ls[i]) : WordMatches(regex, ls[i][j])})

\* lines 201-210
Emit(ids, e, matching_lines) ==
    IF ids THEN [kind |-> "id", id |-> e.id]
    ELSE [kind |-> "job", id |-> e.id, header |-> Str("{}:", <<e.dir>>), lines |-> matching_lines]

\* lines 187-211: read the log, keep the matching lines, print
SearchScan ==
    /\ pc = "scan"
    /\ \E fa \in FileAnswers(Min(MaxText, quota)) :
         LET e == Head(entries)
             matching_lines == MatchingLines(cmd.pattern, fa)
         IN
         /\ examined' = [examined EXCEPT ![Len(examined)].matches = MatchCount(cmd.pattern, fa)]
         /\ out' = IF Len(matching_lines) = 0 THEN out
                   ELSE Append(out, Emit(cmd.ids, e, matching_lines))
         /\ quota' = TakeText(fa)
    /\ entries' = Tail(entries)
    /\ pc' = "loop"
    /\ fsops' = fsops \cup {"open"}
    /\ UNCHANGED <<cmd, active_jobs, log_fp, exit, squeue, job_path, todo>>
    /\ UNCHANGED <<walkvars, walkghost, logghost>>

\* line 212: the loop is over, search returns
SearchReturn ==
    /\ pc = "loop" /\ entries = <<>>
    /\ exit' = Ok("returned")
    /\ pc' = "exit"
    /\ UNCHANGED <<cmd, quota, entries, active_jobs, log_fp, out, squeue, examined, fsops, job_path, todo>>
    /\ UNCHANGED <<walkvars, walkghost, logghost>>

---------------------------------------------------------------------------
(* Specifications *)

Fresh ==
    /\ ymds = <<>> /\ hmss = <<>> /\ jobs = <<>>
    /\ jobmap = EmptyMap
    /\ built = None
    /\ entries = <<>> /\ active_jobs = <<>>
    /\ log_fp = None
    /\ out = <<>>
    /\ exit = None
    /\ jobdirs = {} /\ ignored = 0 /\ visited = <<>> /\ skipped = {} /\ denied = {}
    /\ listing = None /\ content = None /\ squeue = None
    /\ examined = <<>>
    /\ fsops = {}

\* build_job_map("multirun") on its own
InitBuild ==
    /\ cmd = [name |-> "build_job_map"]
    /\ pc = "build"
    /\ quota = MaxInput
    /\ job_path = <<>> /\ todo = <<>>
    /\ Fresh

NextBuild == BuildStart \/ VisitDate \/ VisitTime \/ InsertJob \/ BuildReturn

SpecBuild == InitBuild /\ [][NextBuild]_vars

\* get_log_content_or_error_msg(dir, ending) on its own, its result shown as view shows it
LogDirs == { <<"multirun", d, t, SubmititName, j>> : d \in DateNames, t \in {"10-00-00"}, j \in {"10", "2"} }

InitLog ==
    /\ cmd = [name |-> "get_log_content_or_error_msg"]
    /\ pc = "msg"
    /\ quota = MaxInput
    /\ job_path \in LogDirs
    /\ todo \in {<<"out">>, <<"err">>}
    /\ Fresh

NextLog == MsgResolve \/ MsgPrint

SpecLog == InitLog /\ [][NextLog]_vars

\* the program: main, lines 214-220
InitView ==
    /\ cmd \in [name : {"view"}, jobid : {"10"}]
    /\ pc = "build"

InitSearch ==
    /\ cmd \in [name : {"search"}, pattern : Patterns, ids : BOOLEAN, active : BOOLEAN]
    /\ pc = "search"

Init ==
    /\ InitView \/ InitSearch
    /\ quota = MaxInput
    /\ job_path = <<>> /\ todo = <<>>
    /\ Fresh

Next ==
    \/ BuildStart \/ VisitDate \/ VisitTime \/ InsertJob \/ BuildReturn
    \/ ViewLookup \/ MsgResolve \/ MsgPrint
    \/ SearchCompile \/ SearchSort \/ SearchActive \/ SearchNext \/ SearchScan \/ SearchReturn

Spec == Init /\ [][Next]_vars

(* What the filesystem showed, for the properties below *)

Basenames(dirs) == {FileName(p) : p \in dirs}
DistinctBasenames == \A p, q \in jobdirs : FileName(p) = FileName(q) => p = q
AllUtf8 == \A p \in jobdirs : ToStr(FileName(p)).tag = "Ok"
\* the index with one entry per job directory shown: basename |-> full path
IndexOf(dirs) == [id \in Basenames(dirs) |-> CHOOSE p \in dirs : FileName(p) = id]
\* the time-level directory a job directory lies in: <root>/<date>/<time>/.submitit/<job>
TimeDirOf(job) == SubSeq(job, 1, 3)

---------------------------------------------------------------------------
(* build_job_map *)

\* C1, as claimed: whenever the job directories have pairwise distinct basenames,
\* build_job_map returns a map with exactly one entry per job directory, its basename
\* mapped to its full path.
C1_Original ==
    (pc = "built" /\ DistinctBasenames) => built = Ok(IndexOf(jobdirs))

\* C1, amended: the same, provided every directory the walk lists can be listed (the
\* root, each date-level directory, each .submitit that exists) and every job
\* directory's basename is valid UTF-8; empty levels, levels without .submitit and
\* entries that are no directories then change nothing.
C1_OneEntryPerJobDir ==
    (pc = "built" /\ DistinctBasenames /\ denied = {} /\ AllUtf8)
        => built = Ok(IndexOf(jobdirs))

C1_Witness ==
    /\ pc = "built" /\ built.tag = "Ok"
    /\ DistinctBasenames /\ denied = {}
    /\ Cardinality(jobdirs) >= 2
    /\ skipped # {}
    /\ ignored > 0

\* C2: a time-level directory without .submitit is skipped and gives no entry and no
\* failure; a directory that is there and cannot be listed (a date-level directory, a
\* .submitit) ends the build with the FileNotFound error for that directory, and then
\* no index is returned.
C2_SkipAbsentFailUnlistable ==
    /\ denied # {} =>
         /\ pc = "built"
         /\ \E p \in denied : denied = {p} /\ built = Err(FileNotFound(p))
    /\ (pc = "built" /\ denied = {} /\ \A i \in 1..Len(visited) : FileName(visited[i]) # NonUtf8Name) =>
         /\ built = Ok(jobmap)
         /\ \A id \in DOMAIN jobmap : TimeDirOf(jobmap[id]) \notin skipped

C2_Witness ==
    /\ pc = "built"
    /\ skipped # {}
    /\ jobmap # EmptyMap
    /\ \E p \in denied : Len(p) = 4
    /\ built.tag = "Err"

\* the job directory of basename id that the walk came to last
LastVisited(id) ==
    LET I == {i \in 1..Len(visited) : FileName(visited[i]) = id}
    IN visited[CHOOSE i \in I : \A j \in I : j <= i]

\* C10: at every point of the walk each identifier of the index maps to one directory,
\* the one of that basename the walk came to last; the identifiers are those of the
\* directories inserted so far; and the index returned is the index built.
C10_LastSeenWins ==
    /\ DOMAIN jobmap = Basenames({visited[i] : i \in 1..Len(visited)}) \ {NonUtf8Name}
    /\ \A id \in DOMAIN jobmap : jobmap[id] = LastVisited(id)
    /\ built.tag = "Ok" => built.val = jobmap

C10_Witness ==
    /\ built.tag = "Ok"
    /\ Cardinality(DOMAIN built.val) >= 2
    /\ \E i, j \in 1..Len(visited) :
         /\ i < j
         /\ FileName(visited[i]) = FileName(visited[j])
         /\ visited[i] # visited[j]
         /\ built.val[FileName(visited[i])] = visited[j]
         /\ \E k \in 1..(i - 1) : FileName(visited[k]) # FileName(visited[i])

---------------------------------------------------------------------------
(* get_log_pathbuf and get_log_content_or_error_msg *)

\* get_log_pathbuf has returned (or panicked) and its caller has not gone on
Resolved == pc = "msg_read" \/ (pc = "exit" /\ exit.tag = "Panic")

\* path is a regular file, an immediate entry of dir, with the extension asked for
IsLogFileOf(path, dir, ending) ==
    /\ listing.tag = "Ok"
    /\ \E i \in 1..Len(listing.val) :
         /\ listing.val[i].ftype = "file"
         /\ ExtensionIs(listing.val[i].name, ending)
         /\ path = Join(dir, listing.val[i].name)

Decisive(es, ending) ==
    {i \in 1..Len(es) : \/ es[i].ftype \in {"ioerr", "unknown"}
                        \/ es[i].ftype = "file" /\ ExtensionIs(es[i].name, ending)}

C4_Total ==
    pc = "exit" =>
        /\ exit.tag = "Ok"
        /\ Len(out) = 1
        /\ IF log_fp.tag = "Err" THEN out[1].body = Display(log_fp.err)
           ELSE IF content.tag = "Err" THEN out[1].body = Str("Could not read log.", <<>>)
           ELSE out[1].body = Str("{}", <<content.val>>)

---------------------------------------------------------------------------
(* search and view *)

Searching == cmd.name = "search"

\* C5: the jobs search prints are in strictly descending order of the bytes of their
\* identifiers.
C5_DescendingOrder ==
    Searching =>
        \A i, j \in 1..Len(out) : i < j => Cmp(Bytes(out[i].id), Bytes(out[j].id)) = "Greater"

C5_Witness ==
    /\ Searching
    /\ Len(out) = 2 /\ out[1].id = "2" /\ out[2].id = "10"

\* the jobs search has to look at: all of them, or with --active the active ones
Candidates == {id \in DOMAIN built.val : ~cmd.active \/ Contains(active_jobs, id)}
Emitted(id) == \E k \in 1..Len(out) : out[k].id = id

\* C6: when search is over, every job it had to look at was looked at (a job without
\* an .out log is skipped and the search goes on); a job is printed exactly if its
\* directory holds an .out log with a matching line; the lines printed for it are as
\* many as the lines of the log that match.
C6_EmittedIffMatching ==
    (Searching /\ pc = "exit" /\ built.tag = "Ok" /\ exit # Panic("output")) =>
        /\ \A id \in Candidates : \E i \in 1..Len(examined) : examined[i].id = id
        /\ \A i \in 1..Len(examined) :
             Emitted(examined[i].id) <=> (examined[i].haslog /\ examined[i].matches > 0)
        /\ \A k \in 1..Len(out) : out[k].kind = "job" =>
             \E i \in 1..Len(examined) :
                examined[i].id = out[k].id /\ Len(out[k].lines) = examined[i].matches

\* the scheduler query failed, or named no job
NoActiveJobs == ~squeue.ran \/ ~squeue.success \/ squeue.named = {}

\* C7: with --active only jobs the scheduler named are printed; when the query fails,
\* exits with a failure or names no job, search prints nothing and does not abort.
C7_ActiveOnly ==
    (Searching /\ squeue # None) =>
        /\ \A k \in 1..Len(out) : out[k].id \in squeue.named
        /\ NoActiveJobs => (out = <<>> /\ exit.tag # "Panic")

\* C8: search with a pattern that is no regular expression fails before it lists a
\* directory, opens a file or queries the scheduler.
C8_InvalidPatternFailsFirst ==
    (Searching /\ cmd.pattern = "a(") =>
        /\ fsops = {}
        /\ pc \in {"search", "exit"}
        /\ pc = "exit" => exit = Panic("regex")

C8_Witness ==
    Searching /\ cmd.pattern = "a(" /\ pc = "exit" /\ exit = Panic("regex")

\* C9: view of an identifier that is no key of the index ends with an error for that
\* identifier, not with an abort.
C9_UnknownJobIsAnError ==
    (cmd.name = "view" /\ pc = "exit" /\ built.tag = "Ok" /\ cmd.jobid \notin DOMAIN built.val) =>
        exit.tag = "Err"

=============================================================================
